---- MODULE Spec2Model ----
(***************************************************************************)
(* anyio.from_thread.BlockingPortal: external threads submit callables to  *)
(* the portal's event-loop thread and wait on concurrent.futures.Future    *)
(* objects for the outcome.                                                *)
(*                                                                         *)
(* The event loop runs one task at a time between suspension points        *)
(* (variable running); external threads are preemptive and interleave with *)
(* the loop at every access to shared state: the portal's thread identity  *)
(* and the futures.  concurrent.futures.Future is modelled with the        *)
(* semantics of Python 3.8 and later (a second resolution raises           *)
(* InvalidStateError; exceptions raised by done-callbacks are logged and   *)
(* swallowed).                                                             *)
(*                                                                         *)
(* The backend (task group, cancel scope, the spawn primitive) is not part *)
(* of the source files; it is modelled from its documented contract.       *)
(*                                                                         *)
(* Spec interleaves call / start_task_soon / start_task, Future.cancel and *)
(* stop.  SpecCM is the sync adapter of wrap_async_context_manager used    *)
(* from one external thread while the loop thread tries every method.      *)
(***************************************************************************)
EXTENDS Integers, Sequences, FiniteSets, TLC

\* Largest number of futures/tasks created through the portal in one run.
MaxTasks == 1
\* Largest number of to_thread.run_sync and from_thread.run / run_sync calls in one run.
MaxCalls == 2

None == "None"
LoopThread == "loop"
ExtThreads == {"t1", "t2"}
Threads == {LoopThread} \cup ExtThreads
\* Threads whose code submits work; the others only use futures handed to them.
Submitters == {LoopThread, "t1"}

VARIABLES
    event_loop_thread_id,   \* BlockingPortal._event_loop_thread_id
    stop_event,             \* BlockingPortal._stop_event is set
    tg_cancelled,           \* BlockingPortal._task_group.cancel_scope was cancelled
    tasks,                  \* futures created by the portal, each with the task bound to it
    thr,                    \* per thread: position inside a portal method
    last,                   \* the latest return of a method to its caller
    running                 \* task currently executing on the event loop (0: none)

vars == <<event_loop_thread_id, stop_event, tg_cancelled, tasks, thr, last, running>>

----------------------------------------------------------------------------
\* Outcomes: a returned value, or a raised exception identified by its type.
Out(kind, val) == [kind |-> kind, val |-> val]
NoOut == Out("none", 0)

\* Exceptions that are subclasses of Exception (ordinary errors).
OrdinaryKinds == {"Error", "InvalidStateError", "NotRunning", "FromLoopThread", "Protocol",
                  "CancelledError"}
\* Usage errors: the two RuntimeErrors of _check_running.
UsageKinds == {"NotRunning", "FromLoopThread"}

\* Target callables.  coro: calling it returns a coroutine object.  body "user" is
\* application code: a plain function, or a coroutine with one suspension point; ready
\* says in which segment it calls task_status.started() ("none": takes no task_status).
Func(coro, body, ready, arg) == [coro |-> coro, body |-> body, ready |-> ready, arg |-> arg]

UserFuncs == { Func(FALSE, "user", "none", 0), Func(TRUE, "user", "none", 0) }

\* Callables given to start_task: coroutine functions taking task_status.
ReadyFuncs == { Func(TRUE, "user", r, 0) : r \in {"never", "first", "second"} }

\* portal.stop, as in portal.call(portal.stop, cancel_remaining).
StopFunc(cancel_remaining) == Func(TRUE, "stop", "none", IF cancel_remaining THEN 1 ELSE 0)

\* scope.cancel of task `target`, as in self.call(scope.cancel).
ScopeCancelFunc(target) == Func(FALSE, "scope.cancel", "none", target)

\* _BlockingAsyncContextManager.run_async_cm of the one sync adapter of the model.
RunAsyncCm == Func(TRUE, "run_async_cm", "none", 0)

\* self._exit_event.set of the adapter whose run_async_cm is task `target`.
EventSetFunc(target) == Func(FALSE, "event.set", "none", target)

\* run_portal of start_blocking_portal: the main task of the hosted event loop.
RunPortal == Func(TRUE, "run_portal", "none", 0)

\* How async_cm.__aenter__() can end when it is not cancelled.
AenterOutcomes == {Out("value", 11), Out("Error", 12)}

\* How async_cm.__aexit__(*exc_info) can end: it returns what tells which exc_info it
\* was given, or raises.
AexitOutcomes(exc_info) ==
    {Out("value", IF exc_info = "exc" THEN 21 ELSE 20), Out("Error", 14)}

\* How a callable can end when it is not cancelled: the value it returns, an ordinary
\* error (an Exception), or a fatal one (a BaseException that is no Exception).
Outcomes(f) ==
    IF f.body # "user" THEN {Out("value", 0)}
    ELSE IF ~f.coro THEN {Out("value", 42), Out("Fatal", 2)}
    ELSE IF f.ready = "first" THEN {Out("Error", 8)}
    ELSE IF f.ready = "second" THEN {Out("value", 9)}
    ELSE {Out("value", 7), Out("Error", 3)}

\* The value a callable passes to task_status.started().
StartedValue(f) == IF f.ready = "first" THEN 5 ELSE 6

FuncsOf(op) ==
    CASE op = "call" -> UserFuncs \cup {StopFunc(TRUE), StopFunc(FALSE)}
      [] op = "start_task_soon" -> UserFuncs
      [] op = "start_task" -> ReadyFuncs

Ops == {"call", "start_task_soon", "start_task"}
\* The methods of the sync adapter made by wrap_async_context_manager.
CmOps == {"__enter__", "__exit__"}
\* The exception info a with-statement passes to __exit__: (None, None, None) or a triple.
ExcInfos == {"none", "exc"}

----------------------------------------------------------------------------
\* concurrent.futures.Future
NewFuture == [state |-> "PENDING", out |-> NoOut, cb |-> FALSE]
NoFuture == [state |-> "none", out |-> NoOut, cb |-> FALSE]
FutDone(f) == f.state \in {"CANCELLED", "FINISHED"}
FutCancelled(f) == f.state = "CANCELLED"
\* Future.result(): the value, the stored exception, or CancelledError.
FutResult(f) == IF f.state = "CANCELLED" THEN Out("CancelledError", 0) ELSE f.out
\* Future.set_result / set_exception on a future that is not done.
FutSet(f, out) == [f EXCEPT !.state = "FINISHED", !.out = out]
\* Future.cancel(): a pending future becomes cancelled, a done one is left alone.
FutCancel(f) == IF f.state = "PENDING" THEN [f EXCEPT !.state = "CANCELLED"] ELSE f

NewTask(func, with_status) ==
    [func |-> func, pc |-> "created", fut |-> NewFuture,
     ts |-> IF with_status THEN NewFuture ELSE NoFuture,
     scope |-> "unbound", res |-> NoOut, escaped |-> NoOut, returned |-> FALSE,
     exit_event |-> "unset", exit_exc_info |-> "unset", entered |-> FALSE]

IdleThread == [pc |-> "idle", op |-> "none", k |-> 0, j |-> 0]
\* A method's return to its caller: thread, method, future concerned, outcome.
Return(t, op, k, ret) == [t |-> t, op |-> op, k |-> k, ret |-> ret]

TaskIds == 1..Len(tasks)
\* The main task of a loop hosted by start_blocking_portal (none when the portal lives
\* in a loop of its own).  Its fut field is `future`, the Future[BlockingPortal] the
\* portal is published through, its ts field is `run_future`, its res field the exception
\* in flight in start_blocking_portal; entered and exit_exc_info tell how far the body
\* of the with statement got.
HostTasks == {k \in TaskIds : tasks[k].func = RunPortal}
\* The hosted loop has not returned from _eventloop.run.
LoopAlive == \A k \in HostTasks : tasks[k].pc # "terminated"
\* The task running the adapter's run_async_cm, if __enter__ got as far as creating it.
CmTasks == {k \in TaskIds : tasks[k].func = RunAsyncCm}

----------------------------------------------------------------------------
Init ==
    /\ event_loop_thread_id = LoopThread
    /\ stop_event = FALSE
    /\ tg_cancelled = FALSE
    /\ tasks = <<>>
    /\ thr = [t \in Threads |-> IdleThread]
    /\ last = Return(None, "none", 0, NoOut)
    /\ running = 0

----------------------------------------------------------------------------
\* Methods of the portal, executed by thread t.

\* _check_running without the `is None` test.
_check_running_no_stop_test(t) ==
    IF event_loop_thread_id = t THEN "FromLoopThread" ELSE "ok"

\* _check_running without the thread identity test.
_check_running_no_ident_test(t) ==
    IF event_loop_thread_id = None THEN "NotRunning" ELSE "ok"

\* BlockingPortal._check_running on thread t: "ok", or the RuntimeError raised.
_check_running(t) ==
    IF event_loop_thread_id = None THEN "NotRunning"
    ELSE IF event_loop_thread_id = t THEN "FromLoopThread"
    ELSE "ok"

\* The loop thread runs user code that may use the portal only between portal tasks.
CanAct(t) == thr[t].pc = "idle" /\ (t = LoopThread => running = 0)

\* call / start_task_soon / start_task up to the creation of the future(s):
\* _check_running(), then f = Future() (and, in start_task, the task status future
\* with task_done registered on f).
Submit(t, op) ==
    /\ CanAct(t)
    /\ LET chk == _check_running(t) IN
       IF chk # "ok"
       THEN /\ last' = Return(t, op, 0, Out(chk, 0))
            /\ UNCHANGED <<tasks, thr>>
       ELSE /\ Len(tasks) < MaxTasks + Cardinality(HostTasks)
            /\ \E func \in FuncsOf(op) :
                 tasks' = Append(tasks, NewTask(func, op = "start_task"))
            /\ thr' = [thr EXCEPT ![t] = [IdleThread EXCEPT !.pc = "spawn", !.op = op,
                                                           !.k = Len(tasks) + 1]]
            /\ UNCHANGED last
    /\ UNCHANGED <<event_loop_thread_id, stop_event, tg_cancelled, running>>

\* BlockingPortal._spawn_task_from_thread: the task running _call_func(func, ..., future)
\* joins the portal's task group.  start_task_soon then returns the future; call goes on
\* to wait for its result, start_task for the task status.
_spawn_task_from_thread(t) ==
    /\ thr[t].pc \in {"spawn", "cb_spawn"}
    /\ LoopAlive
    /\ LET cb == thr[t].pc = "cb_spawn"
           k == IF cb THEN thr[t].j ELSE thr[t].k
           op == thr[t].op
           soon == ~cb /\ op = "start_task_soon" IN
       /\ tasks' = [tasks EXCEPT ![k].pc = "new", ![k].returned = soon]
       /\ thr' = [thr EXCEPT ![t] =
                    IF cb THEN [@ EXCEPT !.pc = IF op = "__exit__" THEN "exit_wait"
                                               ELSE "cb_result"]
                    ELSE IF op = "call" THEN [@ EXCEPT !.pc = "result"]
                    ELSE IF op = "start_task" THEN [@ EXCEPT !.pc = "status"]
                    ELSE IF op = "__enter__" THEN [@ EXCEPT !.pc = "enter_wait"]
                    ELSE IF op = "start_blocking_portal" THEN [@ EXCEPT !.pc = "bp_result"]
                    ELSE IdleThread]
       /\ last' = IF soon THEN Return(t, op, k, Out("future", k)) ELSE last
    /\ UNCHANGED <<event_loop_thread_id, stop_event, tg_cancelled, running>>

\* Future.result() called by thread t on a future that was handed out: blocks like call.
result(t, k) ==
    /\ CanAct(t)
    /\ t # LoopThread
    /\ tasks[k].returned
    /\ thr' = [thr EXCEPT ![t] = [IdleThread EXCEPT !.pc = "result", !.op = "result", !.k = k]]
    /\ UNCHANGED <<event_loop_thread_id, stop_event, tg_cancelled, tasks, last, running>>

\* call returning the future's content without blocking until it is done.
call_result_no_wait(t) ==
    /\ thr[t].pc = "result"
    /\ thr' = [thr EXCEPT ![t] = IdleThread]
    /\ last' = Return(t, thr[t].op, thr[t].k, FutResult(tasks[thr[t].k].fut))
    /\ UNCHANGED <<event_loop_thread_id, stop_event, tg_cancelled, tasks, running>>

\* call: start_task_soon(func, *args).result() returns or raises once the future is done.
call_result(t) ==
    /\ thr[t].pc = "result"
    /\ FutDone(tasks[thr[t].k].fut)
    /\ thr' = [thr EXCEPT ![t] = IdleThread]
    /\ last' = Return(t, thr[t].op, thr[t].k, FutResult(tasks[thr[t].k].fut))
    /\ UNCHANGED <<event_loop_thread_id, stop_event, tg_cancelled, tasks, running>>

\* start_task: `return f, task_status_future.result()`.  On a value the caller gets the
\* pair (f, value) and holds the completion future from then on.
start_task_result(t) ==
    /\ thr[t].pc = "status"
    /\ LET k == thr[t].k
           r == FutResult(tasks[k].ts) IN
       /\ FutDone(tasks[k].ts)
       /\ thr' = [thr EXCEPT ![t] = IdleThread]
       /\ last' = Return(t, "start_task", k,
                         IF r.kind = "value" THEN Out("started", r.val) ELSE r)
       /\ tasks' = [tasks EXCEPT ![k].returned = (r.kind = "value")]
    /\ UNCHANGED <<event_loop_thread_id, stop_event, tg_cancelled, running>>

\* task_done reporting the protocol violation however the task ended.
task_done_always_protocol(T) ==
    IF T.func.ready = "none" \/ T.ts.state # "PENDING" THEN T.ts ELSE FutSet(T.ts, Out("Protocol", 0))

\* start_task.task_done, run when the completion future f of task T is resolved: settles
\* the task status future unless started() already did.  Returns the new status future.
\* Only start_task registers it (its callables are those that take a task_status).
task_done(T) ==
    IF T.func.ready = "none" \/ T.ts.state # "PENDING" THEN T.ts
    ELSE IF FutCancelled(T.fut) THEN FutCancel(T.ts)
    ELSE IF T.fut.out.kind # "value" THEN FutSet(T.ts, T.fut.out)
    ELSE FutSet(T.ts, Out("Protocol", 0))

\* Future.cancel() called by thread t on a future that start_task_soon or start_task
\* handed out.  A pending future becomes cancelled and its done-callbacks run on t:
\* task_done, then _call_func's callback if it was registered.  (On a future that is
\* done, cancel() changes nothing.)
cancel(t, k) ==
    /\ CanAct(t)
    /\ k \in TaskIds
    /\ tasks[k].returned
    /\ tasks[k].fut.state = "PENDING"
    /\ LET T == [tasks[k] EXCEPT !.fut = FutCancel(@)] IN
       tasks' = [tasks EXCEPT ![k] = [T EXCEPT !.ts = task_done(T)]]
    /\ thr' = [thr EXCEPT ![t] =
                 IF tasks[k].fut.cb
                 THEN [IdleThread EXCEPT !.pc = "callback", !.op = "cancel", !.k = k]
                 ELSE IdleThread]
    /\ UNCHANGED <<event_loop_thread_id, stop_event, tg_cancelled, last, running>>

\* _call_func.callback(f) on thread t, f cancelled: self.call(scope.cancel).  Reading
\* `scope` after the task's finally clause gives None (AttributeError); call starts with
\* _check_running.  Either error is logged and swallowed by Future's callback runner, and
\* cancel() returns.  Otherwise the future of the scope.cancel call is created.
callback(t) ==
    /\ thr[t].pc = "callback"
    /\ LET k == thr[t].k IN
       IF tasks[k].scope = "None" \/ _check_running(t) # "ok"
       THEN /\ thr' = [thr EXCEPT ![t] = IdleThread]
            /\ UNCHANGED tasks
       ELSE /\ tasks' = Append(tasks, NewTask(ScopeCancelFunc(k), FALSE))
            /\ thr' = [thr EXCEPT ![t] = [@ EXCEPT !.pc = "cb_spawn", !.j = Len(tasks) + 1]]
    /\ UNCHANGED <<event_loop_thread_id, stop_event, tg_cancelled, last, running>>

\* The callback's self.call(scope.cancel) returns (or raises, swallowed) once scope.cancel
\* has run on the loop; then cancel() returns to its caller.
callback_result(t) ==
    /\ thr[t].pc = "cb_result"
    /\ FutDone(tasks[thr[t].j].fut)
    /\ thr' = [thr EXCEPT ![t] = IdleThread]
    /\ UNCHANGED <<event_loop_thread_id, stop_event, tg_cancelled, tasks, last, running>>

----------------------------------------------------------------------------
\* The event loop thread.

\* The loop can pick a task to run: no task is between two suspension points, the
\* loop thread is not inside a Future callback, and the loop has not shut down.
LoopFree == running = 0 /\ thr[LoopThread].pc = "idle" /\ LoopAlive

\* stop without self._stop_event.set().
stop_event_not_set(cancel_remaining) ==
    /\ event_loop_thread_id' = None
    /\ stop_event' = stop_event
    /\ tg_cancelled' = (tg_cancelled \/ cancel_remaining)

\* BlockingPortal.stop(cancel_remaining).
stop(cancel_remaining) ==
    /\ event_loop_thread_id' = None
    /\ stop_event' = TRUE
    /\ tg_cancelled' = (tg_cancelled \/ cancel_remaining)

\* Code running on the loop awaits portal.stop(...) itself (as __aexit__ does).
StopDirect(cancel_remaining) ==
    /\ LoopFree
    /\ stop(cancel_remaining)
    /\ UNCHANGED <<tasks, thr, last, running>>

\* started() resolving the status future with None instead of the value.
started_drops_value(T) == IF FutDone(T.ts) THEN T.ts ELSE FutSet(T.ts, Out("value", 0))

\* _BlockingPortalTaskStatus.started(value): the status future after the call, and
\* whether the call raised InvalidStateError (status future already done).
started(T) ==
    IF FutDone(T.ts) THEN T.ts ELSE FutSet(T.ts, Out("value", StartedValue(T.func)))
started_raises(T) == FutDone(T.ts)

\* The task leaves _call_func: finally clause (scope = None); an exception that escapes
\* is an unhandled error of the portal's task group, which cancels the group's scope.
Finish(k, T, escaped) ==
    /\ tasks' = [tasks EXCEPT ![k] = [T EXCEPT !.pc = "done", !.scope = "None",
                                               !.escaped = escaped]]
    /\ running' = 0
    /\ tg_cancelled' = (tg_cancelled \/ escaped # NoOut)
    /\ UNCHANGED <<event_loop_thread_id, stop_event, thr, last>>

\* _call_func without the final `raise`: nothing is let out.
Reraised_nothing(res) == NoOut

\* What `raise` lets out of _call_func: an exception that is not an Exception.
Reraised(res) == IF res.kind \in OrdinaryKinds \cup {"value"} THEN NoOut ELSE res

\* Handle whose `except cancelled_exc_class` clause leaves the future alone.
Handle_cancel_ignored(k, T) ==
    IF T.res.kind = "Cancelled" THEN Finish(k, T, NoOut)
    ELSE IF ~FutCancelled(T.fut)
    THEN /\ tasks' = [tasks EXCEPT ![k] =
                        [T EXCEPT !.pc = IF T.res.kind = "value" THEN "set_result"
                                         ELSE "set_exception"]]
         /\ running' = k
         /\ UNCHANGED <<event_loop_thread_id, stop_event, tg_cancelled, thr, last>>
    ELSE Finish(k, T, Reraised(T.res))

\* Handle without the `except cancelled_exc_class` clause: the scheduler's cancellation
\* exception is handled by `except BaseException` like any other.
Handle_cancel_as_error(k, T) ==
    IF ~FutCancelled(T.fut)
    THEN /\ tasks' = [tasks EXCEPT ![k] =
                        [T EXCEPT !.pc = IF T.res.kind = "value" THEN "set_result"
                                         ELSE "set_exception"]]
         /\ running' = k
         /\ UNCHANGED <<event_loop_thread_id, stop_event, tg_cancelled, thr, last>>
    ELSE Finish(k, T, Reraised(T.res))

\* _call_func with func's outcome T.res at hand: the except / else clauses up to the
\* test of future.cancelled().
\*   except cancelled_exc_class: future.cancel() (its callbacks run on the loop thread,
\*     where callback's self.call raises RuntimeError, logged and swallowed)
\*   except BaseException / else: `if not future.cancelled()`; the set_* call is the
\*     next step, as another thread may cancel the future in between
Handle(k, T) ==
    LET TC == [T EXCEPT !.fut = FutCancel(T.fut)] IN
    IF T.res.kind = "Cancelled"
    THEN /\ (T.fut.state = "PENDING" /\ T.fut.cb) => _check_running(LoopThread) # "ok"
         /\ Finish(k, IF T.fut.state = "PENDING" THEN [TC EXCEPT !.ts = task_done(TC)] ELSE T,
                   NoOut)
    ELSE IF ~FutCancelled(T.fut)
    THEN /\ tasks' = [tasks EXCEPT ![k] =
                        [T EXCEPT !.pc = IF T.res.kind = "value" THEN "set_result"
                                         ELSE "set_exception"]]
         /\ running' = k
         /\ UNCHANGED <<event_loop_thread_id, stop_event, tg_cancelled, thr, last>>
    ELSE Finish(k, T, Reraised(T.res))

\* _call_func, first step: retval = func(*args).  A plain function has run to its end
\* and the except / else clauses follow; for a coroutine, enter the CancelScope and test
\* future.cancelled() (scope.cancel() if so).
_call_func_begin(k) ==
    /\ LoopFree
    /\ k \in TaskIds
    /\ tasks[k].pc = "new"
    /\ tasks[k].func.body \notin {"scope.cancel", "event.set"}
    /\ LET T == tasks[k]
           f == T.func IN
       IF f.coro
       THEN /\ tasks' = IF FutCancelled(T.fut)
                        THEN [tasks EXCEPT ![k].pc = "await", ![k].scope = "cancelled"]
                        ELSE [tasks EXCEPT ![k].pc = "add_callback", ![k].scope = "entered"]
            /\ running' = k
            /\ UNCHANGED <<event_loop_thread_id, stop_event, tg_cancelled, thr, last>>
       ELSE \E o \in Outcomes(f) : Handle(k, [T EXCEPT !.res = o])

\* _call_func whose func is the bound method scope.cancel of task j's CancelScope (the
\* task made by callback's self.call): the scope, if still entered, is cancelled; then
\* `if not future.cancelled()` on this task's own future, which nobody else holds.
_call_func_scope_cancel(k) ==
    /\ LoopFree
    /\ k \in TaskIds
    /\ tasks[k].pc = "new"
    /\ tasks[k].func.body = "scope.cancel"
    /\ LET j == tasks[k].func.arg IN
       tasks' = [tasks EXCEPT ![k].pc = IF FutCancelled(tasks[k].fut) THEN "done"
                                        ELSE "set_result",
                              ![k].res = Out("value", 0),
                              ![k].scope = IF FutCancelled(tasks[k].fut) THEN "None" ELSE @,
                              ![j].scope = IF @ = "entered" THEN "cancelled" ELSE @]
    /\ running' = IF FutCancelled(tasks[k].fut) THEN 0 ELSE k
    /\ UNCHANGED <<event_loop_thread_id, stop_event, tg_cancelled, thr, last>>

\* _call_func: future.add_done_callback(callback), then `retval = await retval` up to the
\* coroutine's first suspension point (portal.stop has none).  On a future that is
\* already done the callback runs at once on the loop thread, where self.call raises
\* RuntimeError, which Future logs and swallows (were the check to pass, call would
\* block the loop here).
_call_func_await(k) ==
    /\ running = k
    /\ tasks[k].pc \in {"add_callback", "await"}
    /\ (tasks[k].pc = "add_callback" /\ FutCancelled(tasks[k].fut))
          => _check_running(LoopThread) # "ok"
    /\ LET reg == tasks[k].pc = "add_callback" /\ ~FutDone(tasks[k].fut)
           T == [tasks[k] EXCEPT !.fut.cb = reg]
           f == T.func IN
       IF f.body = "stop"
       THEN /\ stop(f.arg = 1)
            /\ tasks' = [tasks EXCEPT ![k] =
                           [T EXCEPT !.pc = "returned", !.res = Out("value", 0)]]
            /\ UNCHANGED <<thr, last, running>>
       ELSE /\ IF f.ready = "first" /\ started_raises(T)
               THEN /\ tasks' = [tasks EXCEPT ![k] =
                         [T EXCEPT !.pc = "returned", !.res = Out("InvalidStateError", 0)]]
                    /\ UNCHANGED running
               ELSE /\ tasks' = [tasks EXCEPT ![k] =
                         [T EXCEPT !.pc = "suspended",
                                   !.ts = IF f.ready = "first" THEN started(T) ELSE @]]
                    /\ running' = 0
            /\ UNCHANGED <<event_loop_thread_id, stop_event, tg_cancelled, thr, last>>

\* The scheduler delivers cancellation at a suspension point inside a cancelled scope:
\* the task's own CancelScope or the task group's.
CancelDelivered(T) == T.scope = "cancelled" \/ tg_cancelled

\* _call_func: the coroutine is resumed from its suspension point and runs to its end.
_call_func_resume(k) ==
    /\ LoopFree
    /\ k \in TaskIds
    /\ tasks[k].pc = "suspended"
    /\ LET T == tasks[k]
           f == T.func IN
       \E o \in Outcomes(f) : tasks' = [tasks EXCEPT ![k] =
           IF CancelDelivered(T) THEN [T EXCEPT !.pc = "returned", !.res = Out("Cancelled", 0)]
           ELSE IF f.ready = "second" /\ started_raises(T)
           THEN [T EXCEPT !.pc = "returned", !.res = Out("InvalidStateError", 0)]
           ELSE [T EXCEPT !.pc = "returned", !.res = o,
                          !.ts = IF f.ready = "second" THEN started(T) ELSE @]]
    /\ running' = k
    /\ UNCHANGED <<event_loop_thread_id, stop_event, tg_cancelled, thr, last>>

\* _call_func after the coroutine ended: the except / else clauses.
_call_func_except(k) ==
    /\ running = k
    /\ tasks[k].pc = "returned"
    /\ Handle(k, tasks[k])

\* _call_func_set that resolves the future for results and Exceptions only: an
\* exception that is not an Exception is re-raised with the future left pending.
_call_func_set_fatal_unset(k) ==
    /\ running = k
    /\ tasks[k].pc \in {"set_result", "set_exception"}
    /\ LET T == tasks[k]
           TS == [T EXCEPT !.fut = FutSet(T.fut, T.res)] IN
       IF FutDone(T.fut)
       THEN Finish(k, T, Out("InvalidStateError", 0))
       ELSE IF Reraised(T.res) # NoOut
       THEN Finish(k, T, Reraised(T.res))
       ELSE Finish(k, [TS EXCEPT !.ts = task_done(TS)], Reraised(T.res))

\* _call_func: future.set_result(retval) / future.set_exception(exc), which raise
\* InvalidStateError on a future cancelled since the test; then `raise` for an exception
\* that is not an Exception.
_call_func_set(k) ==
    /\ running = k
    /\ tasks[k].pc \in {"set_result", "set_exception"}
    /\ LET T == tasks[k]
           TS == [T EXCEPT !.fut = FutSet(T.fut, T.res)] IN
       IF FutDone(T.fut)
       THEN Finish(k, T, Out("InvalidStateError", 0))
       ELSE Finish(k, [TS EXCEPT !.ts = task_done(TS)], Reraised(T.res))

----------------------------------------------------------------------------
\* The sync adapter _BlockingAsyncContextManager.  Its _enter_future is the ts field of
\* the task running run_async_cm, its _exit_future that task's fut.

\* __enter__ on thread t: _enter_future = Future(), then start_task_soon(run_async_cm)
\* up to the creation of the future.
__enter__(t) ==
    /\ CanAct(t)
    /\ CmTasks = {}
    /\ LET chk == _check_running(t) IN
       IF chk # "ok"
       THEN /\ last' = Return(t, "__enter__", 0, Out(chk, 0))
            /\ UNCHANGED <<tasks, thr>>
       ELSE /\ Len(tasks) < MaxTasks
            /\ tasks' = Append(tasks, NewTask(RunAsyncCm, TRUE))
            /\ thr' = [thr EXCEPT ![t] = [IdleThread EXCEPT !.pc = "spawn", !.op = "__enter__",
                                                           !.k = Len(tasks) + 1]]
            /\ UNCHANGED last
    /\ UNCHANGED <<event_loop_thread_id, stop_event, tg_cancelled, running>>

\* __enter__: self._enter_future.result() returns cm's value or raises.
enter_result(t) ==
    /\ thr[t].pc = "enter_wait"
    /\ LET k == thr[t].k
           r == FutResult(tasks[k].ts) IN
       /\ FutDone(tasks[k].ts)
       /\ thr' = [thr EXCEPT ![t] = IdleThread]
       /\ last' = Return(t, "__enter__", k, r)
       /\ tasks' = [tasks EXCEPT ![k].entered = (r.kind = "value")]
    /\ UNCHANGED <<event_loop_thread_id, stop_event, tg_cancelled, running>>

\* __exit__(*exc_info) on thread t, after an __enter__ that returned: stores the
\* exception info, then self._portal.call(self._exit_event.set) up to the creation of the
\* call's future.
__exit__(t, exc_info) ==
    /\ CanAct(t)
    /\ \E k \in CmTasks :
         /\ tasks[k].entered
         /\ \A j \in TaskIds : tasks[j].func # EventSetFunc(k)
         /\ LET chk == _check_running(t)
                stored == [tasks EXCEPT ![k].exit_exc_info = exc_info] IN
            IF chk # "ok"
            THEN /\ last' = Return(t, "__exit__", 0, Out(chk, 0))
                 /\ tasks' = stored
                 /\ UNCHANGED thr
            ELSE /\ tasks' = Append(stored, NewTask(EventSetFunc(k), FALSE))
                 /\ thr' = [thr EXCEPT ![t] = [IdleThread EXCEPT !.pc = "cb_spawn",
                                !.op = "__exit__", !.k = k, !.j = Len(tasks) + 1]]
                 /\ UNCHANGED last
    /\ UNCHANGED <<event_loop_thread_id, stop_event, tg_cancelled, running>>

\* __exit__: the call of _exit_event.set returns or raises; then
\* `return self._exit_future.result()`.
exit_result(t) ==
    /\ thr[t].pc = "exit_wait"
    /\ LET k == thr[t].k
           c == tasks[thr[t].j].fut IN
       /\ FutDone(c)
       /\ FutResult(c).kind = "value" => FutDone(tasks[k].fut)
       /\ last' = Return(t, "__exit__", k,
                         IF FutResult(c).kind = "value" THEN FutResult(tasks[k].fut)
                         ELSE FutResult(c))
    /\ thr' = [thr EXCEPT ![t] = IdleThread]
    /\ UNCHANGED <<event_loop_thread_id, stop_event, tg_cancelled, tasks, running>>

\* _call_func whose func is the bound method _exit_event.set of the adapter run by task
\* j: the event is set; then `if not future.cancelled()` on this task's own future,
\* which nobody else holds.
_call_func_event_set(k) ==
    /\ LoopFree
    /\ k \in TaskIds
    /\ tasks[k].pc = "new"
    /\ tasks[k].func.body = "event.set"
    /\ tasks' = [tasks EXCEPT ![k].pc = "set_result",
                              ![k].res = Out("value", 0),
                              ![tasks[k].func.arg].exit_event = "set"]
    /\ running' = k
    /\ UNCHANGED <<event_loop_thread_id, stop_event, tg_cancelled, thr, last>>

\* _call_func of run_async_cm: future.add_done_callback(callback) (nobody else holds the
\* future), then run_async_cm up to `await self._exit_event.wait()`: the Event is made,
\* __aenter__ is awaited (it may or may not pass a suspension point where a pending
\* cancellation is delivered); its value or its exception goes to _enter_future, and an
\* exception is raised again.
run_async_cm_enter(k) ==
    /\ running = k
    /\ tasks[k].pc \in {"add_callback", "await"}
    /\ tasks[k].func = RunAsyncCm
    /\ LET T == [tasks[k] EXCEPT !.fut.cb = TRUE, !.exit_event = "clear"] IN
       \E o \in AenterOutcomes \cup {Out("Cancelled", 0)} :
          /\ o.kind = "Cancelled" => CancelDelivered(T)
          /\ tasks' = [tasks EXCEPT ![k] =
                IF o.kind = "value"
                THEN [T EXCEPT !.pc = "suspended", !.ts = FutSet(T.ts, o)]
                ELSE [T EXCEPT !.pc = "returned", !.ts = FutSet(T.ts, o), !.res = o]]
          /\ running' = IF o.kind = "value" THEN 0 ELSE k
    /\ UNCHANGED <<event_loop_thread_id, stop_event, tg_cancelled, thr, last>>

\* run_async_cm without `await self._exit_event.wait()`: __aexit__ follows __aenter__.
run_async_cm_exit_no_wait(k) ==
    /\ LoopFree
    /\ k \in TaskIds
    /\ tasks[k].pc = "suspended"
    /\ tasks[k].func = RunAsyncCm
    /\ LET T == tasks[k] IN
       \E o \in AexitOutcomes(T.exit_exc_info) : tasks' = [tasks EXCEPT ![k] =
             IF CancelDelivered(T) THEN [T EXCEPT !.pc = "returned", !.res = Out("Cancelled", 0)]
             ELSE [T EXCEPT !.pc = "returned", !.res = o]]
    /\ running' = k
    /\ UNCHANGED <<event_loop_thread_id, stop_event, tg_cancelled, thr, last>>

\* run_async_cm resumed from `await self._exit_event.wait()`, by the event or by a
\* cancellation: `return await self._async_cm.__aexit__(*self._exit_exc_info)`.
run_async_cm_exit(k) ==
    /\ LoopFree
    /\ k \in TaskIds
    /\ tasks[k].pc = "suspended"
    /\ tasks[k].func = RunAsyncCm
    /\ LET T == tasks[k] IN
       /\ CancelDelivered(T) \/ T.exit_event = "set"
       /\ \E o \in AexitOutcomes(T.exit_exc_info) : tasks' = [tasks EXCEPT ![k] =
             IF CancelDelivered(T) THEN [T EXCEPT !.pc = "returned", !.res = Out("Cancelled", 0)]
             ELSE [T EXCEPT !.pc = "returned", !.res = o]]
    /\ running' = k
    /\ UNCHANGED <<event_loop_thread_id, stop_event, tg_cancelled, thr, last>>

----------------------------------------------------------------------------
\* start_blocking_portal.  The launcher thread runs the context manager, the loop thread
\* is the executor's worker thread running _eventloop.run(run_portal).

Launcher == "t1"
HostId == 1
\* start_blocking_portal right after executor.submit: future and run_future are pending,
\* no portal exists yet, the launcher is about to wait.
InitBP ==
    /\ event_loop_thread_id = None
    /\ stop_event = FALSE
    /\ tg_cancelled = FALSE
    /\ tasks = <<[NewTask(RunPortal, TRUE) EXCEPT !.pc = "submitted"]>>
    /\ thr = [t \in Threads |-> IF t = Launcher THEN [IdleThread EXCEPT !.pc = "bp_wait"]
                                ELSE IdleThread]
    /\ last = Return(None, "none", 0, NoOut)
    /\ running = 0

\* The worker thread takes the work item: run_future is now running and cannot be
\* cancelled.  A work item whose future was cancelled is dropped and the worker ends.
executor_worker(k) ==
    /\ k \in HostTasks
    /\ tasks[k].pc = "submitted"
    /\ tasks' = IF FutCancelled(tasks[k].ts)
                THEN [tasks EXCEPT ![k].pc = "terminated"]
                ELSE [tasks EXCEPT ![k].pc = "starting", ![k].ts.state = "RUNNING"]
    /\ UNCHANGED <<event_loop_thread_id, stop_event, tg_cancelled, thr, last, running>>

\* _eventloop.run raises before run_portal publishes the portal (unknown backend, bad
\* backend options): the work item ends with that error in run_future.
eventloop_run_fails(k) ==
    /\ k \in HostTasks
    /\ tasks[k].pc = "starting"
    /\ tasks' = [tasks EXCEPT ![k].pc = "terminated",
                              ![k].ts = FutSet(@, Out("StartupError", 0))]
    /\ UNCHANGED <<event_loop_thread_id, stop_event, tg_cancelled, thr, last, running>>

\* run_portal up to its first suspension point: BlockingPortal() in the hosting thread,
\* task group entered; if future.set_running_or_notify_cancel() the portal is published
\* and run_portal sleeps until stopped; else the async with block is left at once:
\* __aexit__ stops the portal and waits for the task group.
run_portal(k) ==
    /\ k \in HostTasks
    /\ tasks[k].pc = "starting"
    /\ IF FutCancelled(tasks[k].fut)
       THEN /\ stop(FALSE)
            /\ tasks' = [tasks EXCEPT ![k].pc = "joining"]
       ELSE /\ event_loop_thread_id' = LoopThread
            /\ tasks' = [tasks EXCEPT ![k].pc = "sleeping",
                                      ![k].fut = FutSet(@, Out("value", 0))]
            /\ UNCHANGED <<stop_event, tg_cancelled>>
    /\ UNCHANGED <<thr, last, running>>

\* sleep_until_stopped returns once the stop event is set (or is cancelled with the task
\* group's scope, which encloses the body of `async with BlockingPortal()`); run_portal
\* leaves the block: BlockingPortal.__aexit__ awaits self.stop() and then the task
\* group's __aexit__.
sleep_until_stopped(k) ==
    /\ LoopFree
    /\ k \in HostTasks
    /\ tasks[k].pc = "sleeping"
    /\ stop_event \/ tg_cancelled
    /\ stop(FALSE)
    /\ tasks' = [tasks EXCEPT ![k].pc = "joining"]
    /\ UNCHANGED <<thr, last, running>>

\* The exceptions that escaped from tasks of the portal's task group.
Escaped == {tasks[j].escaped : j \in TaskIds} \ {NoOut}

\* The task group's __aexit__ returns when every task of the group has finished; it
\* raises what escaped from them.  run_portal and _eventloop.run end, the work item
\* resolves run_future and the worker thread ends.
task_group_aexit(k) ==
    /\ LoopFree
    /\ k \in HostTasks
    /\ tasks[k].pc = "joining"
    /\ \A j \in TaskIds \ {k} : tasks[j].pc \in {"created", "done"}
    /\ \E o \in (IF Escaped = {} THEN {Out("value", 0)} ELSE Escaped) :
         tasks' = [tasks EXCEPT ![k].pc = "terminated", ![k].ts = FutSet(@, o)]
    /\ UNCHANGED <<event_loop_thread_id, stop_event, tg_cancelled, thr, last, running>>

\* _spawn_task_from_thread towards a loop that has shut down: the backend's call into
\* the loop raises RuntimeError in the calling thread.
spawn_on_closed_loop(t) ==
    /\ thr[t].pc = "spawn"
    /\ ~LoopAlive
    /\ IF thr[t].op = "start_blocking_portal"
       THEN /\ tasks' = [tasks EXCEPT ![HostId].res = Out("LoopClosed", 0)]
            /\ thr' = [thr EXCEPT ![t] = [IdleThread EXCEPT !.pc = "bp_shutdown"]]
            /\ UNCHANGED last
       ELSE /\ last' = Return(t, thr[t].op, 0, Out("LoopClosed", 0))
            /\ thr' = [thr EXCEPT ![t] = IdleThread]
            /\ UNCHANGED tasks
    /\ UNCHANGED <<event_loop_thread_id, stop_event, tg_cancelled, running>>

\* wait(...) is interrupted by a BaseException in the launcher: future.cancel(),
\* run_future.cancel(), raise.
wait_interrupted(t) ==
    /\ thr[t].pc = "bp_wait"
    /\ tasks' = [tasks EXCEPT ![HostId].fut = FutCancel(@), ![HostId].ts = FutCancel(@),
                              ![HostId].res = Out("Interrupt", 0)]
    /\ thr' = [thr EXCEPT ![t].pc = "bp_shutdown"]
    /\ UNCHANGED <<event_loop_thread_id, stop_event, tg_cancelled, last, running>>

\* wait_first_completed going on to the body without the test of future.done().
wait_no_done_test(t) ==
    /\ thr[t].pc = "bp_wait"
    /\ FutDone(tasks[HostId].fut) \/ FutDone(tasks[HostId].ts)
    /\ thr' = [thr EXCEPT ![t] = IdleThread]
    /\ tasks' = [tasks EXCEPT ![HostId].entered = TRUE]
    /\ UNCHANGED <<event_loop_thread_id, stop_event, tg_cancelled, last, running>>

\* wait(..., FIRST_COMPLETED) returns; `if future.done()`: the body of the with statement
\* starts with the portal, else run_future.result() is next.
wait_first_completed(t) ==
    /\ thr[t].pc = "bp_wait"
    /\ FutDone(tasks[HostId].fut) \/ FutDone(tasks[HostId].ts)
    /\ IF FutDone(tasks[HostId].fut)
       THEN /\ thr' = [thr EXCEPT ![t] = IdleThread]
            /\ tasks' = [tasks EXCEPT ![HostId].entered = TRUE]
       ELSE /\ thr' = [thr EXCEPT ![t].pc = "bp_join"]
            /\ UNCHANGED tasks
    /\ UNCHANGED <<event_loop_thread_id, stop_event, tg_cancelled, last, running>>

\* The launcher is inside the body of the with statement and not inside a portal method.
InBody(t) ==
    /\ t = Launcher
    /\ CanAct(t)
    /\ HostTasks # {}
    /\ tasks[HostId].entered
    /\ tasks[HostId].exit_exc_info = "unset"

\* The body of the with statement ends, normally ("none") or by raising ("exc"):
\* portal.call(portal.stop, True) in the except clause, portal.call(portal.stop, False)
\* after it, up to the creation of the call's future.  A RuntimeError of _check_running
\* takes the place of the exception being handled.
body_exit(t, exc_info) ==
    /\ InBody(t)
    /\ LET chk == _check_running(t)
           inflight == IF exc_info = "exc" THEN Out("BodyError", 0) ELSE NoOut
           left == [tasks EXCEPT ![HostId].exit_exc_info = exc_info] IN
       IF chk # "ok"
       THEN /\ tasks' = [left EXCEPT ![HostId].res = Out(chk, 0)]
            /\ thr' = [thr EXCEPT ![t] = [IdleThread EXCEPT !.pc = "bp_shutdown"]]
       ELSE /\ tasks' = Append([left EXCEPT ![HostId].res = inflight],
                               NewTask(StopFunc(exc_info = "exc"), FALSE))
            /\ thr' = [thr EXCEPT ![t] = [IdleThread EXCEPT !.pc = "spawn",
                           !.op = "start_blocking_portal", !.k = Len(tasks) + 1]]
    /\ UNCHANGED <<event_loop_thread_id, stop_event, tg_cancelled, last, running>>

\* portal.call(portal.stop, ...) returns or raises.  In the except clause `raise` follows
\* (the body's exception, unless call raised); after a normal body run_future.result()
\* is next.
stop_call_result(t) ==
    /\ thr[t].pc = "bp_result"
    /\ LET r == FutResult(tasks[thr[t].k].fut)
           H == tasks[HostId] IN
       /\ FutDone(tasks[thr[t].k].fut)
       /\ tasks' = [tasks EXCEPT ![HostId].res = IF r.kind # "value" THEN r ELSE @]
       /\ thr' = [thr EXCEPT ![t] = [IdleThread EXCEPT !.pc =
                     IF r.kind = "value" /\ H.exit_exc_info = "none" THEN "bp_join"
                     ELSE "bp_shutdown"]]
    /\ UNCHANGED <<event_loop_thread_id, stop_event, tg_cancelled, last, running>>

\* run_future.result(): returns when the work item has ended, or raises its exception.
run_future_result(t) ==
    /\ thr[t].pc = "bp_join"
    /\ LET r == FutResult(tasks[HostId].ts) IN
       /\ FutDone(tasks[HostId].ts)
       /\ tasks' = [tasks EXCEPT ![HostId].res = IF r.kind # "value" THEN r ELSE @]
    /\ thr' = [thr EXCEPT ![t].pc = "bp_shutdown"]
    /\ UNCHANGED <<event_loop_thread_id, stop_event, tg_cancelled, last, running>>

\* executor_shutdown leaving out the join of the worker thread.
executor_shutdown_no_join(t) ==
    /\ thr[t].pc = "bp_shutdown"
    /\ last' = Return(t, "start_blocking_portal", 0,
                      IF tasks[HostId].res = NoOut THEN Out("value", 0)
                      ELSE tasks[HostId].res)
    /\ thr' = [thr EXCEPT ![t].pc = "bp_done"]
    /\ UNCHANGED <<event_loop_thread_id, stop_event, tg_cancelled, tasks, running>>

\* End of `with ThreadPoolExecutor(1) as executor`: shutdown(wait=True) joins the worker
\* thread; then start_blocking_portal returns, or raises the exception in flight.
executor_shutdown(t) ==
    /\ thr[t].pc = "bp_shutdown"
    /\ tasks[HostId].pc = "terminated"
    /\ last' = Return(t, "start_blocking_portal", 0,
                      IF tasks[HostId].res = NoOut THEN Out("value", 0)
                      ELSE tasks[HostId].res)
    /\ thr' = [thr EXCEPT ![t].pc = "bp_done"]
    /\ UNCHANGED <<event_loop_thread_id, stop_event, tg_cancelled, tasks, running>>

----------------------------------------------------------------------------
\* Worker threads: to_thread.run_sync and from_thread.run / run_sync.  In this part
\* tasks holds the calls in progress: a task of the loop awaiting to_thread.run_sync, or
\* a callable that a thread handed to the loop with from_thread.run / run_sync; thr tells
\* for each thread whether the bridge bound an async module to it.

\* The thread the bridge uses as worker thread, and a thread the bridge did not spawn.
WorkerThread == "t1"
ForeignThread == "t2"
FromThreadOps == {"run", "run_sync"}
FuncOutcomes == {Out("value", 42), Out("Error", 3)}

\* A task awaiting to_thread.run_sync(func, cancellable=...): shield is the flag the
\* backend was given, worker the state of func in the worker thread, out its outcome,
\* cancelled whether (and when) the awaiting task was cancelled, res what the task got.
ToThreadCall(cancellable, shield) ==
    [kind |-> "to_thread.run_sync", cancellable |-> cancellable, shield |-> shield,
     pc |-> "awaiting", cancelled |-> "no", worker |-> "running", out |-> NoOut,
     res |-> NoOut]
\* A callable handed to the loop by from_thread.run / run_sync called on thread t.
FromThreadCall(op, t) == [kind |-> op, thread |-> t, pc |-> "submitted", out |-> NoOut]

WtThread == [pc |-> "idle", op |-> "none", k |-> 0, bound |-> FALSE]

InitWT ==
    /\ event_loop_thread_id = LoopThread
    /\ stop_event = FALSE
    /\ tg_cancelled = FALSE
    /\ tasks = <<>>
    /\ thr = [t \in Threads |-> WtThread]
    /\ last = Return(None, "none", 0, NoOut)
    /\ running = 0

\* to_thread.run_sync that does not pass `cancellable` on.
to_thread_run_sync_flag_dropped(cancellable) ==
    /\ Len(tasks) < MaxCalls
    /\ thr[WorkerThread].pc = "idle"
    /\ tasks' = Append(tasks, ToThreadCall(cancellable, TRUE))
    /\ thr' = [thr EXCEPT ![WorkerThread] = [pc |-> "func", op |-> "none",
                                              k |-> Len(tasks) + 1, bound |-> TRUE]]
    /\ UNCHANGED <<event_loop_thread_id, stop_event, tg_cancelled, last, running>>

\* to_thread.run_sync(func, cancellable=...) awaited by a task of the loop:
\* run_sync_in_worker_thread(func, cancellable=cancellable, limiter=limiter).  The
\* backend starts func in a worker thread, which it binds to the async module, and the
\* task waits.
to_thread_run_sync(cancellable) ==
    /\ Len(tasks) < MaxCalls
    /\ thr[WorkerThread].pc = "idle"
    /\ tasks' = Append(tasks, ToThreadCall(cancellable, ~cancellable))
    /\ thr' = [thr EXCEPT ![WorkerThread] = [pc |-> "func", op |-> "none",
                                              k |-> Len(tasks) + 1, bound |-> TRUE]]
    /\ UNCHANGED <<event_loop_thread_id, stop_event, tg_cancelled, last, running>>

\* func ends in the worker thread: its outcome is handed to the loop.
worker_func_ends(t) ==
    /\ thr[t].pc = "func"
    /\ \E o \in FuncOutcomes :
         tasks' = [tasks EXCEPT ![thr[t].k].worker = "finished", ![thr[t].k].out = o]
    /\ thr' = [thr EXCEPT ![t].pc = "idle", ![t].k = 0]
    /\ UNCHANGED <<event_loop_thread_id, stop_event, tg_cancelled, last, running>>

\* The task awaiting to_thread.run_sync is cancelled (its cancel scope is).
cancel_awaiting(k) ==
    /\ k \in TaskIds
    /\ tasks[k].kind = "to_thread.run_sync"
    /\ tasks[k].pc = "awaiting"
    /\ tasks[k].cancelled = "no"
    /\ tasks' = [tasks EXCEPT ![k].cancelled =
                    IF tasks[k].worker = "running" THEN "before" ELSE "after"]
    /\ UNCHANGED <<event_loop_thread_id, stop_event, tg_cancelled, thr, last, running>>

\* The awaiting task is resumed with the cancellation: at once when the wait is not
\* shielded, and not before func has ended when it is.
await_cancelled(k) ==
    /\ k \in TaskIds
    /\ tasks[k].kind = "to_thread.run_sync"
    /\ tasks[k].pc = "awaiting"
    /\ tasks[k].cancelled # "no"
    /\ ~tasks[k].shield \/ tasks[k].worker = "finished"
    /\ tasks' = [tasks EXCEPT ![k].pc = "returned", ![k].res = Out("Cancelled", 0)]
    /\ UNCHANGED <<event_loop_thread_id, stop_event, tg_cancelled, thr, last, running>>

\* The awaiting task is resumed with func's outcome, unless it was detached from the
\* worker by a cancellation.
await_returns(k) ==
    /\ k \in TaskIds
    /\ tasks[k].kind = "to_thread.run_sync"
    /\ tasks[k].pc = "awaiting"
    /\ tasks[k].worker = "finished"
    /\ tasks[k].shield \/ tasks[k].cancelled # "before"
    /\ tasks' = [tasks EXCEPT ![k].pc = "returned", ![k].res = tasks[k].out]
    /\ UNCHANGED <<event_loop_thread_id, stop_event, tg_cancelled, thr, last, running>>

\* current_async_module read without regard to the thread (a module-level default).
current_async_module_any_thread(t) == "asynclib"

\* threadlocals.current_async_module on thread t: the module, or AttributeError.
current_async_module(t) == IF thr[t].bound THEN "asynclib" ELSE "AttributeError"

\* from_thread.run(func) / from_thread.run_sync(func) called on thread t: RuntimeError
\* when no async module is bound to the thread; else asynclib.run_async_from_thread /
\* run_sync_from_thread hands func to the event loop and blocks the thread.
from_thread(op, t) ==
    /\ \/ t = ForeignThread /\ thr[t].pc = "idle"
       \/ t = WorkerThread /\ thr[t].pc = "func"
    /\ IF current_async_module(t) = "AttributeError"
       THEN /\ last' = Return(t, op, 0, Out("NotWorker", 0))
            /\ UNCHANGED <<tasks, thr>>
       ELSE /\ Len(tasks) < MaxCalls
            /\ tasks' = Append(tasks, FromThreadCall(op, t))
            /\ thr' = [thr EXCEPT ![t].pc = IF @ = "func" THEN "in_loop" ELSE "in_loop_foreign",
                                  ![t].op = op]
            /\ UNCHANGED last
    /\ UNCHANGED <<event_loop_thread_id, stop_event, tg_cancelled, running>>

run(t) == from_thread("run", t)

run_sync(t) == from_thread("run_sync", t)

\* The event loop runs a callable handed over by run_async_from_thread /
\* run_sync_from_thread.
loop_runs(k) ==
    /\ k \in TaskIds
    /\ tasks[k].kind \in FromThreadOps
    /\ tasks[k].pc = "submitted"
    /\ \E o \in FuncOutcomes : tasks' = [tasks EXCEPT ![k].pc = "done", ![k].out = o]
    /\ running' = running + 1
    /\ UNCHANGED <<event_loop_thread_id, stop_event, tg_cancelled, thr, last>>

\* from_thread.run / run_sync returns the callable's value or raises its exception.
from_thread_returns(t) ==
    /\ thr[t].pc \in {"in_loop", "in_loop_foreign"}
    /\ \E k \in TaskIds :
         /\ tasks[k].kind \in FromThreadOps /\ tasks[k].thread = t
         /\ tasks[k].pc = "done"
         /\ \A j \in TaskIds : (j > k /\ tasks[j].kind \in FromThreadOps) => tasks[j].thread # t
         /\ last' = Return(t, thr[t].op, k, tasks[k].out)
    /\ thr' = [thr EXCEPT ![t].pc = IF @ = "in_loop" THEN "func" ELSE "idle", ![t].op = "none"]
    /\ UNCHANGED <<event_loop_thread_id, stop_event, tg_cancelled, tasks, running>>

----------------------------------------------------------------------------
Next ==
    \/ \E t \in Submitters, op \in Ops : Submit(t, op)
    \/ \E t \in Threads : _spawn_task_from_thread(t)
    \/ \E t \in Threads : call_result(t)
    \/ \E t \in Threads : start_task_result(t)
    \/ \E t \in Threads, k \in TaskIds : result(t, k)
    \/ \E t \in Threads, k \in TaskIds : cancel(t, k)
    \/ \E t \in Threads : callback(t)
    \/ \E t \in Threads : callback_result(t)
    \/ \E c \in BOOLEAN : StopDirect(c)
    \/ \E k \in TaskIds : _call_func_begin(k)
    \/ \E k \in TaskIds : _call_func_scope_cancel(k)
    \/ \E k \in TaskIds : _call_func_await(k)
    \/ \E k \in TaskIds : _call_func_resume(k)
    \/ \E k \in TaskIds : _call_func_except(k)
    \/ \E k \in TaskIds : _call_func_set(k)

Spec == Init /\ [][Next]_vars

\* The sync adapter used from an external thread, while code on the loop thread tries
\* every blocking method of the portal and of the adapter.
NextCM ==
    \/ \E op \in Ops : Submit(LoopThread, op)
    \/ \E t \in Submitters : __enter__(t)
    \/ \E t \in Submitters, e \in ExcInfos : __exit__(t, e)
    \/ \E t \in Threads : _spawn_task_from_thread(t)
    \/ \E t \in Threads : enter_result(t)
    \/ \E t \in Threads : exit_result(t)
    \/ \E c \in BOOLEAN : StopDirect(c)
    \/ \E k \in TaskIds : _call_func_begin(k)
    \/ \E k \in TaskIds : _call_func_event_set(k)
    \/ \E k \in TaskIds : run_async_cm_enter(k)
    \/ \E k \in TaskIds : run_async_cm_exit(k)
    \/ \E k \in TaskIds : _call_func_except(k)
    \/ \E k \in TaskIds : _call_func_set(k)

SpecCM == Init /\ [][NextCM]_vars

\* start_blocking_portal: the launcher uses the portal in the body of the with statement.
NextBP ==
    \/ \E k \in TaskIds : executor_worker(k)
    \/ \E k \in TaskIds : eventloop_run_fails(k)
    \/ \E k \in TaskIds : run_portal(k)
    \/ \E k \in TaskIds : sleep_until_stopped(k)
    \/ \E k \in TaskIds : task_group_aexit(k)
    \/ \E t \in {Launcher} : wait_interrupted(t)
    \/ \E t \in {Launcher} : wait_first_completed(t)
    \/ \E t \in {Launcher}, op \in Ops : Submit(t, op)
    \/ \E t \in {Launcher}, e \in ExcInfos : body_exit(t, e)
    \/ \E t \in Threads : _spawn_task_from_thread(t)
    \/ \E t \in Threads : spawn_on_closed_loop(t)
    \/ \E t \in Threads : call_result(t)
    \/ \E t \in Threads : start_task_result(t)
    \/ \E t \in Threads : stop_call_result(t)
    \/ \E t \in Threads : run_future_result(t)
    \/ \E t \in Threads : executor_shutdown(t)
    \/ \E k \in TaskIds : _call_func_begin(k)
    \/ \E k \in TaskIds : _call_func_await(k)
    \/ \E k \in TaskIds : _call_func_resume(k)
    \/ \E k \in TaskIds : _call_func_except(k)
    \/ \E k \in TaskIds : _call_func_set(k)

SpecBP == InitBP /\ [][NextBP]_vars

\* Tasks of a loop use to_thread.run_sync and may be cancelled while they wait; the
\* worker thread and a thread the bridge did not spawn use from_thread.run / run_sync.
NextWT ==
    \/ \E c \in BOOLEAN : to_thread_run_sync(c)
    \/ \E t \in Threads : worker_func_ends(t)
    \/ \E k \in TaskIds : cancel_awaiting(k)
    \/ \E k \in TaskIds : await_cancelled(k)
    \/ \E k \in TaskIds : await_returns(k)
    \/ \E t \in ExtThreads : run(t)
    \/ \E t \in ExtThreads : run_sync(t)
    \/ \E k \in TaskIds : loop_runs(k)
    \/ \E t \in ExtThreads : from_thread_returns(t)

SpecWT == InitWT /\ [][NextWT]_vars

\* Worker threads run on, and the loop runs what is ready.
FairSpecWT ==
    /\ SpecWT
    /\ WF_vars(\E t \in Threads : worker_func_ends(t))
    /\ WF_vars(\E k \in TaskIds : loop_runs(k))
    /\ WF_vars(\E t \in ExtThreads : from_thread_returns(t))

\* A step of the hosted event loop.  The loop runs whatever is ready: its main task and
\* the tasks of the portal's task group.
LoopStepBP ==
    \E k \in TaskIds :
        \/ executor_worker(k) \/ run_portal(k) \/ sleep_until_stopped(k)
        \/ task_group_aexit(k)
        \/ _call_func_begin(k) \/ _call_func_await(k) \/ _call_func_resume(k)
        \/ _call_func_except(k) \/ _call_func_set(k)

\* The hosted loop does not stop while it has something to run.
FairSpecBP == SpecBP /\ WF_vars(LoopStepBP)

----------------------------------------------------------------------------
\* Properties.

\* The task of a future is in the portal's task group once it was spawned.
InGroup(T) == T.pc # "created"
\* The task called task_status.started(): only started() puts a value in the channel.
ReadinessReported(T) == T.ts.state = "FINISHED" /\ T.ts.out.kind = "value"
\* A blocking wait on task k's future has just returned to its caller.
WaitReturned(op) == last.op = op /\ last.k # 0

\* C1: when call(func) returns on its caller's thread, func has finished on the loop
\* thread (its outcome is recorded and the task has left _call_func), and call returned
\* func's return value or raised the ordinary error func raised.
C1_CallReturnsOutcome ==
    WaitReturned("call") =>
        LET T == tasks[last.k] IN
        /\ T.res # NoOut
        /\ T.pc = "done"
        /\ T.res.kind \in {"value", "Error"} => last.ret = T.res
        /\ last.ret.kind \in {"value", "Error"} => last.ret = T.res

C1_Witness ==
    /\ WaitReturned("call")
    /\ last.ret = Out("value", 42)
    /\ tasks[last.k].func = Func(FALSE, "user", "none", 0)

\* C2: once stop() has completed the portal stays stopped however often stop() is called
\* again, and a call, start_task_soon or start_task that begins then raises a usage
\* error, creates no future and adds no task to the task group.
C2_StoppedRejects ==
    [][event_loop_thread_id = None =>
          /\ event_loop_thread_id' = None
          /\ Len(tasks') = Len(tasks)
          /\ \A t \in Threads : thr[t].pc = "idle" => thr'[t].pc # "spawn"
          /\ (last' # last /\ last'.op \in Ops /\ last'.k = 0)
                => (last'.ret.kind \in UsageKinds /\ tasks' = tasks)]_vars

C2_Witness ==
    /\ event_loop_thread_id = None
    /\ tg_cancelled
    /\ last.op = "start_task" /\ last.t \in ExtThreads
    /\ last.ret.kind = "NotRunning"

\* C3: a call, start_task_soon or start_task, and a sync adapter's __enter__ or __exit__,
\* made on the event loop thread raises a usage error at once: the loop thread never
\* gets past _check_running into a spawn or a blocking wait, no future or task is
\* created and no task advances.
C3_LoopThreadRejected ==
    [][/\ thr'[LoopThread].pc = "idle"
       /\ (last' # last /\ last'.t = LoopThread) =>
             /\ last'.op \in Ops \cup CmOps
             /\ last'.k = 0
             /\ last'.ret.kind \in UsageKinds
             /\ Len(tasks') = Len(tasks)
             /\ \A k \in TaskIds : tasks'[k].pc = tasks[k].pc]_vars

\* The loop thread called __exit__ on the adapter that an external thread had entered;
\* run_async_cm is still waiting for the exit event.
C3_Witness ==
    /\ last.t = LoopThread /\ last.op = "__exit__"
    /\ last.ret.kind = "FromLoopThread"
    /\ \E k \in CmTasks : tasks[k].entered /\ tasks[k].pc = "suspended"
                           /\ tasks[k].exit_event = "clear"

\* C4: after stop() has marked the portal non-running, no task is added to the portal's
\* task group, in any interleaving of the submitting threads with stop().
C4_NoSpawnAfterStop ==
    [][event_loop_thread_id = None =>
          \A k \in TaskIds : ~InGroup(tasks[k]) => ~InGroup(tasks'[k])]_vars

\* C5: the future of a task reaches one terminal state and keeps it: it is done when the
\* task has finished, a done future never changes its state or content again, and a
\* thread waiting on it is released only when it is done, with exactly that content
\* (CancelledError for a cancelled future, whatever the task returned afterwards).
C5_OneTerminalState ==
    [][/\ \A k \in 1..Len(tasks') : tasks'[k].pc = "done" => FutDone(tasks'[k].fut)
       /\ \A k \in TaskIds : FutDone(tasks[k].fut) =>
             /\ tasks'[k].fut.state = tasks[k].fut.state
             /\ tasks'[k].fut.out = tasks[k].fut.out
       /\ (last' # last /\ last'.op \in {"call", "result"} /\ last'.k # 0) =>
             /\ FutDone(tasks[last'.k].fut)
             /\ last'.ret = FutResult(tasks'[last'.k].fut)
             /\ FutCancelled(tasks[last'.k].fut) => last'.ret.kind = "CancelledError"]_vars

\* A future cancelled before its coroutine reached the first suspension point; the
\* coroutine then returned a value, and the waiter still saw the cancellation.
C5_Witness ==
    /\ WaitReturned("result")
    /\ last.ret.kind = "CancelledError"
    /\ tasks[last.k].pc = "done"
    /\ tasks[last.k].res.kind = "value"
    /\ tasks[last.k].func.coro

\* A thread is inside Future.cancel() on task k's future, running the done-callbacks.
Cancelling(k) ==
    \E t \in Threads : thr[t].op = "cancel" /\ thr[t].k = k /\ thr[t].pc # "idle"

\* C6: a cancel request on the future of a task whose coroutine is running cancels the
\* task's cancel scope: once the request has returned to its caller and the coroutine
\* is still suspended, the scope has been cancelled.
C6_CancelReachesScope ==
    \A k \in TaskIds :
        (/\ tasks[k].pc = "suspended"
         /\ tasks[k].fut.cb
         /\ FutCancelled(tasks[k].fut)
         /\ ~Cancelling(k))
        => tasks[k].scope = "cancelled"

\* C7: a task whose coroutine was cancelled by the scheduler ends with its future
\* cancelled, and nothing escapes from the task into the task group.
C7_SchedulerCancel ==
    \A k \in TaskIds :
        (tasks[k].pc = "done" /\ tasks[k].res.kind = "Cancelled")
        => (FutCancelled(tasks[k].fut) /\ tasks[k].escaped = NoOut)

\* The future was never handed out (call), so only the scheduler can have cancelled.
C7_Witness ==
    /\ WaitReturned("call")
    /\ last.ret.kind = "CancelledError"
    /\ tasks[last.k].res.kind = "Cancelled"
    /\ ~tasks[last.k].returned
    /\ tg_cancelled

\* C8 as stated: the error slot of a task's future never holds an exception that is not
\* an ordinary error.
C8_OnlyOrdinaryCaptured ==
    \A k \in TaskIds : tasks[k].fut.out.kind \in OrdinaryKinds \cup {"value", "none"}

\* C8 amended: when the callable raises a fatal exception, an exception always escapes
\* from the task into the task group (the fatal one, or InvalidStateError when the
\* future was cancelled between _call_func's test and its set_exception), and the fatal
\* exception is captured into the future unless the future is cancelled; an ordinary
\* error is captured and does not escape.
C8_FatalCapturedAndRaised ==
    \A k \in TaskIds : tasks[k].pc = "done" =>
        LET T == tasks[k] IN
        /\ T.res.kind = "Fatal" =>
              /\ FutCancelled(T.fut) \/ T.fut.out = T.res
              /\ T.escaped = T.res
                 \/ (T.escaped.kind = "InvalidStateError" /\ FutCancelled(T.fut))
        /\ T.res.kind = "Error" =>
              /\ FutCancelled(T.fut) \/ T.fut.out = T.res
              /\ T.escaped = NoOut
                 \/ (T.escaped.kind = "InvalidStateError" /\ FutCancelled(T.fut))

C8_Witness ==
    \E k \in TaskIds :
        /\ tasks[k].pc = "done"
        /\ tasks[k].res.kind = "Fatal"
        /\ tasks[k].fut.out = tasks[k].res
        /\ tasks[k].escaped = tasks[k].res

\* C9 as stated: when the task ends without reporting readiness, the readiness wait of
\* start_task fails with the protocol violation error, however the task ended.
C9_AlwaysProtocolError ==
    (WaitReturned("start_task") /\ ~ReadinessReported(tasks[last.k]))
    => last.ret.kind = "Protocol"

\* C9 amended: when the task ends without reporting readiness, the readiness wait fails
\* with the protocol violation error if the task returned, with the task's own exception
\* if it raised one, and with CancelledError if it was cancelled.
C9_ReadinessFailure ==
    (WaitReturned("start_task") /\ ~ReadinessReported(tasks[last.k])) =>
        LET T == tasks[last.k] IN
        /\ T.pc = "done"
        /\ T.res.kind = "value" => last.ret = Out("Protocol", 0)
        /\ T.res.kind = "Cancelled" => last.ret = Out("CancelledError", 0)
        /\ T.res.kind \notin {"value", "Cancelled"} => last.ret = T.res
        /\ last.ret.kind # "started"

C9_Witness ==
    /\ WaitReturned("start_task")
    /\ last.ret = Out("Protocol", 0)
    /\ tasks[last.k].func.ready = "never"
    /\ tasks[last.k].res.kind = "value"

\* C10: when the task calls task_status.started(v), start_task returns (f, v); the
\* readiness channel is resolved once and never changes afterwards, also when the task
\* ends; and the completion future f then carries the task's own outcome: cancelled if
\* the task was cancelled, else (unless f was cancelled meanwhile) what the task
\* returned or raised.
C10_StartedThenOutcome ==
    [][/\ (last' # last /\ last'.op = "start_task" /\ last'.ret.kind = "started") =>
             /\ ReadinessReported(tasks'[last'.k])
             /\ last'.ret.val = StartedValue(tasks'[last'.k].func)
             /\ tasks'[last'.k].func.ready \in {"first", "second"}
       /\ \A k \in TaskIds : FutDone(tasks[k].ts) => tasks'[k].ts = tasks[k].ts
       /\ \A k \in 1..Len(tasks') :
             LET T == tasks'[k] IN
             (T.pc = "done" /\ ReadinessReported(T)) =>
                 /\ T.ts.out.val = StartedValue(T.func)
                 /\ FutDone(T.fut)
                 /\ T.res.kind = "Cancelled" => FutCancelled(T.fut)
                 /\ FutCancelled(T.fut) \/ T.fut.out = T.res]_vars

\* start_task has returned (f, v) while the task is still suspended in its coroutine.
C10_Witness ==
    /\ WaitReturned("start_task")
    /\ last.ret = Out("started", 5)
    /\ tasks[last.k].pc = "suspended"
    /\ tasks[last.k].fut.state = "PENDING"

\* Task k's coroutine is portal.stop(...) and this step runs it.
StopRuns(k) ==
    /\ tasks[k].func.body = "stop"
    /\ tasks[k].pc \in {"add_callback", "await"}
    /\ tasks'[k].pc = "returned"

\* C11: stop(cancel_remaining) sets the stop event, so a task blocked in
\* sleep_until_stopped gets out of it; with cancel_remaining it cancels the task group's
\* scope, and a task of the group that was suspended ends cancelled; without it, it
\* cancels nothing and touches no other task, and a task that ends while the task group
\* was never cancelled ends with its own outcome in its future.
C11_StopReleasesAndCancels ==
    /\ [][/\ \A k \in TaskIds : StopRuns(k) =>
                /\ stop_event' /\ event_loop_thread_id' = None
                /\ tasks[k].func.arg = 1 => tg_cancelled'
                /\ tasks[k].func.arg = 0 =>
                      /\ tg_cancelled' = tg_cancelled
                      /\ \A j \in TaskIds \ {k} : tasks'[j] = tasks[j]
          /\ \A k \in TaskIds :
                (tg_cancelled /\ tasks[k].pc = "suspended" /\ tasks'[k].pc # "suspended")
                   => tasks'[k].res.kind = "Cancelled"
          /\ \A k \in 1..Len(tasks') :
                (tasks'[k].pc = "done" /\ ~tg_cancelled') =>
                   /\ tasks'[k].res.kind # "Cancelled"
                   /\ tasks'[k].fut.out = tasks'[k].res]_vars
    /\ \A h \in {HostId} :
          (tasks[h].pc = "sleeping" /\ stop_event) ~> (tasks[h].pc # "sleeping")

\* stop(cancel_remaining=False) has run while a task was suspended in its coroutine: the
\* task is still there, not cancelled, and the main task waits for it.
C11_Witness ==
    /\ stop_event /\ ~tg_cancelled
    /\ tasks[HostId].pc = "joining"
    /\ \E k \in TaskIds : tasks[k].func.body = "stop" /\ tasks[k].func.arg = 0
                          /\ tasks[k].pc = "done"
    /\ \E k \in TaskIds : tasks[k].func.body = "user" /\ tasks[k].pc = "suspended"
                          /\ tasks[k].scope = "entered"

\* start_blocking_portal has returned or raised to its caller.
Returned == last.op = "start_blocking_portal"

\* C12: when the body of the start_blocking_portal scope exits with an error,
\* stop(cancel_remaining=True) is run on the portal (the task group's scope is
\* cancelled) and the error start_blocking_portal raises is the body's error.
C12_BodyErrorPropagates ==
    (Returned /\ tasks[HostId].exit_exc_info = "exc")
    => (last.ret = Out("BodyError", 0) /\ tg_cancelled)

\* C13: when start_blocking_portal has returned or raised, the hosting thread has
\* ended; when it returned without error, the body ended normally, the bootstrap's
\* stop(cancel_remaining=False) has run, the task group was never cancelled and no task
\* ended cancelled, and every task of the hosted loop has finished.
C13_JoinedOnReturn ==
    Returned =>
        /\ tasks[HostId].pc = "terminated"
        /\ last.ret.kind = "value" =>
              /\ tasks[HostId].exit_exc_info = "none"
              /\ \E k \in TaskIds : tasks[k].func = StopFunc(FALSE) /\ tasks[k].pc = "done"
                                    /\ k = Len(tasks)
              /\ ~tg_cancelled
              /\ \A k \in TaskIds \ {HostId} :
                    tasks[k].pc = "done" /\ tasks[k].res.kind # "Cancelled"

\* A normal exit while a task started in the body was not yet finished when the body
\* ended (it was created before the bootstrap's stop call and finished with its value).
C13_Witness ==
    /\ Returned
    /\ last.ret = Out("value", 0)
    /\ \E k \in TaskIds : tasks[k].func = Func(TRUE, "user", "none", 0)
                          /\ tasks[k].res = Out("value", 7)

\* C19: if the hosting thread ends with a startup error before the portal is published,
\* the launcher (unless a BaseException interrupted its wait) raises that error, the
\* body was never run and no stop was issued; and when the body starts, the portal is
\* published, running (its main task sleeps until stopped) and accepts calls from the
\* launcher thread.
C19_FirstOfPortalOrFailure ==
    [][/\ (Returned' /\ tasks'[HostId].ts.out = Out("StartupError", 0)
             /\ last'.ret.kind # "Interrupt") =>
             /\ last'.ret = Out("StartupError", 0)
             /\ ~tasks'[HostId].entered
             /\ tasks'[HostId].fut.state = "PENDING"
             /\ Len(tasks') = 1
             /\ ~stop_event'
       /\ (~tasks[HostId].entered /\ tasks'[HostId].entered) =>
             /\ tasks'[HostId].fut = FutSet(NewFuture, Out("value", 0))
             /\ tasks'[HostId].pc = "sleeping"
             /\ event_loop_thread_id' \notin {None, Launcher}
             /\ ~stop_event']_vars

C19_Witness ==
    /\ Returned
    /\ last.ret = Out("StartupError", 0)
    /\ tasks[HostId].pc = "terminated"
    /\ ~tasks[HostId].entered

\* async_cm.__aexit__ has run in task T: T ended with one of its outcomes.
AexitRan(T) == T.res \in AexitOutcomes("none") \cup AexitOutcomes("exc")

\* C14: the adapter's __enter__ returns or raises only after __aenter__ has ended on the
\* loop, with its value or its exception, and after an exception __aexit__ never runs;
\* __aexit__ runs only after __exit__ was called and its call of _exit_event.set has run,
\* with the exception info __exit__ was given; __exit__ returns a value or raises an
\* ordinary error of the context manager only after __aexit__ has ended, and it is
\* __aexit__'s.
C14_AdapterOrder ==
    /\ (last.op = "__enter__" /\ last.k # 0) =>
          LET T == tasks[last.k] IN
          /\ T.exit_event # "unset"
          /\ FutDone(T.ts) /\ last.ret = T.ts.out
          /\ last.ret \in AenterOutcomes \cup {Out("Cancelled", 0)}
    /\ \A k \in CmTasks :
          LET T == tasks[k] IN
          /\ (FutDone(T.ts) /\ T.ts.out.kind # "value") =>
                (~AexitRan(T) /\ T.res = T.ts.out /\ ~T.entered)
          /\ AexitRan(T) =>
                /\ T.entered
                /\ T.exit_event = "set"
                /\ \E j \in TaskIds : tasks[j].func = EventSetFunc(k) /\ tasks[j].res # NoOut
                /\ T.res \in AexitOutcomes(T.exit_exc_info)
    /\ (last.op = "__exit__" /\ last.k # 0 /\ last.ret.kind \in {"value", "Error"}) =>
          LET T == tasks[last.k] IN
          /\ T.pc = "done"
          /\ AexitRan(T)
          /\ last.ret = T.res

\* __exit__ was given an exception; __aexit__ got it and its return value came back.
C14_Witness ==
    /\ last.op = "__exit__" /\ last.k # 0
    /\ last.ret = Out("value", 21)
    /\ tasks[last.k].exit_exc_info = "exc"

\* C15: from_thread.run and from_thread.run_sync called on a thread with no async module
\* bound raise RuntimeError: the thread never blocks on the loop, nothing is handed to
\* the loop for it and no callable is invoked.
C15_ForeignThreadRejected ==
    [][/\ \A t \in Threads :
             ~thr[t].bound => thr'[t].pc \notin {"in_loop", "in_loop_foreign"}
       /\ (Len(tasks') > Len(tasks) /\ tasks'[Len(tasks')].kind \in FromThreadOps)
             => thr[tasks'[Len(tasks')].thread].bound
       /\ (last' # last /\ ~thr[last'.t].bound) =>
             /\ last'.op \in FromThreadOps
             /\ last'.ret = Out("NotWorker", 0)
             /\ tasks' = tasks
             /\ running' = running]_vars

\* The foreign thread was refused while the worker thread's call went through.
C15_Witness ==
    /\ last.t = ForeignThread /\ last.op = "run_sync"
    /\ last.ret = Out("NotWorker", 0)
    /\ \E k \in TaskIds : tasks[k].kind = "run" /\ tasks[k].thread = WorkerThread
                          /\ tasks[k].pc = "done"

\* A task waiting in to_thread.run_sync.
IsToThread(k) == k \in TaskIds /\ tasks[k].kind = "to_thread.run_sync"

\* C16: a task cancelled in to_thread.run_sync(func, cancellable=True) before func
\* ended gets the cancellation and never func's outcome, while func runs to its end in
\* the worker thread; with cancellable=False the task gets nothing, cancellation
\* included, before func has ended.
C16_CancellableDetaches ==
    /\ [](\A k \in TaskIds : IsToThread(k) =>
            /\ (tasks[k].cancellable /\ tasks[k].cancelled = "before"
                   /\ tasks[k].pc = "returned") => tasks[k].res = Out("Cancelled", 0)
            /\ (~tasks[k].cancellable /\ tasks[k].pc = "returned")
                   => tasks[k].worker = "finished"
            /\ tasks[k].worker = "finished" <=> tasks[k].out \in FuncOutcomes)
    /\ \A k \in 1..MaxCalls :
          (IsToThread(k) /\ tasks[k].worker = "running")
             ~> (IsToThread(k) /\ tasks[k].worker = "finished")

\* The cancelled task has got its cancellation while func is still running.
C16_Witness ==
    \E k \in TaskIds :
        /\ IsToThread(k)
        /\ tasks[k].cancellable
        /\ tasks[k].pc = "returned" /\ tasks[k].res = Out("Cancelled", 0)
        /\ tasks[k].worker = "running"
        /\ thr[WorkerThread].pc = "func"

\* Task k's future was cancelled before _call_func registered its done-callback, that
\* is, before the coroutine was first awaited.
CancelledBeforeStart(k) ==
    /\ tasks[k].func.coro
    /\ FutCancelled(tasks[k].fut)
    /\ ~tasks[k].fut.cb
    /\ tasks[k].pc \notin {"created", "new", "add_callback"}

\* C17: a start_task_soon future cancelled before its coroutine starts has its task's
\* scope cancelled at once, wherever the cancel request lands before the first await:
\* the coroutine, once suspended, is inside a cancelled scope and does not run on.
C17_CancelBeforeStartCancelsScope ==
    \A k \in TaskIds :
        (CancelledBeforeStart(k) /\ tasks[k].pc = "suspended")
            => tasks[k].scope = "cancelled"

\* C18: _call_func never resolves a cancelled future: between its test of
\* future.cancelled() and set_result / set_exception the future is not cancelled, and
\* no InvalidStateError escapes from the task into the task group.
C18_NoResolveAfterCancel ==
    \A k \in TaskIds :
        /\ tasks[k].pc \in {"set_result", "set_exception"} => ~FutCancelled(tasks[k].fut)
        /\ tasks[k].escaped.kind # "InvalidStateError"

\* Thread t, blocked on a future, is woken once the future is done: Future.result()
\* returns in call, in start_task and in callback's self.call.
WaiterStep(t) == call_result(t) \/ start_task_result(t) \/ callback_result(t)

\* Every thread keeps running.
FairSpec == Spec /\ \A t \in Threads : WF_vars(WaiterStep(t))

\* Thread t is blocked in call() or in result() on task k's future, in start_task on
\* its task status future, or in callback's call on the future of scope.cancel.
BlockedOn(t) ==
    IF thr[t].pc \in {"result", "status"} THEN thr[t].k
    ELSE IF thr[t].pc = "cb_result" THEN thr[t].j
    ELSE 0

\* C20: when a task has left _call_func, however it ended, its future is done, and so is
\* the task status future of a start_task; a thread blocked on a future of a finished
\* task does not stay blocked.
C20_FinishedTaskReleasesWaiters ==
    /\ [](\A k \in TaskIds : tasks[k].pc = "done" =>
            /\ FutDone(tasks[k].fut)
            /\ tasks[k].ts.state # "PENDING")
    /\ \A t \in Threads :
          (BlockedOn(t) # 0 /\ tasks[BlockedOn(t)].pc = "done") ~> (BlockedOn(t) = 0)

\* A thread is blocked on the future of a task that ended with a fatal exception, and
\* the future holds that exception.
C20_Witness ==
    \E t \in Threads :
        /\ thr[t].pc = "result"
        /\ tasks[thr[t].k].pc = "done"
        /\ tasks[thr[t].k].escaped.kind = "Fatal"
        /\ tasks[thr[t].k].fut.out.kind = "Fatal"

====
